---- MODULE Spec2Model ----
(***************************************************************************)
(* Constraint-based simulation methods of framed (analysis/simulation.py): *)
(* FBA, pFBA, looplessFBA, MOMA, lMOMA and ROOM, driven against a solver   *)
(* instance that may be reused across calls.                               *)
(*                                                                         *)
(* Python values are modelled as follows.  A dict is a function, a list a  *)
(* sequence, None for a bound is the empty sequence and a number x is      *)
(* <<x>>.  Names are Python strings and are built by concatenation exactly *)
(* as the code builds them (r_id + '+', 'y_' + r_id, ...).                 *)
(***************************************************************************)
EXTENDS Integers, Sequences, FiniteSets, TLC

VARIABLES
    model,      \* the CBModel all calls of a behaviour are made on
    solver,     \* the solver instance the caller keeps and passes as solver=
    before,     \* that instance as it was when the last call started
    call,       \* the last call: its name and arguments
    outcome,    \* how the last call ended: a returned Solution or a raised error
    oracle      \* "exact": solves are computed; "any": the status is an input

vars == <<model, solver, before, call, outcome, oracle>>

(***************************************************************************)
(* Bounds of the model.                                                    *)
(***************************************************************************)
\* Reaction bounds of the generated models are drawn from -MaxBound..MaxBound.
MaxBound == 1
\* Reference fluxes and the bounds of the model they are used on reach MaxRef.
MaxRef == 2

(***************************************************************************)
(* Python helpers.                                                         *)
(***************************************************************************)
None == <<>>
Some(x) == <<x>>
EmptyDict == <<>>
Abs(x) == IF x < 0 THEN -x ELSE x
Range(seq) == {seq[i] : i \in DOMAIN seq}
\* d[k] = v on a dict
DictSet(d, k, v) == (k :> v) @@ d
\* del d[k]
DictDel(d, k) == [n \in DOMAIN d \ {k} |-> d[n]]

RECURSIVE SumOver(_, _)
SumOver(S, f) ==
    IF S = {} THEN 0
    ELSE LET k == CHOOSE k \in S : TRUE IN f[k] + SumOver(S \ {k}, f)

\* sum of coeff * x[var] over the terms of a linear expression
Dot(expr, x) == SumOver(DOMAIN expr, [n \in DOMAIN expr |-> expr[n] * x[n]])

(***************************************************************************)
(* Status and Solution of solvers/solver.py.                               *)
(***************************************************************************)
OPTIMAL == "OPTIMAL"
INFEASIBLE == "INFEASIBLE"

\* Solution(status, fobj, values); has_values is FALSE when values is None;
\* pre_solution is the attribute pFBA sets, None until then
Solution(status, fobj, has_values, values) ==
    [status |-> status, fobj |-> fobj, has_values |-> has_values, values |-> values,
     pre_solution |-> None]

\* how a call ends: kind is "return" (of solution) or "raise" (of exc);
\* solver is the instance the call worked on, as the call leaves it.  Kept
\* with it, of what went on inside the call: solved tells whether the call
\* got as far as its last solve, objective is the objective that solve was
\* given, and prerequisite is the Solution of the solve the call ran first to
\* get an optimal value or a reference (None when it ran none)
Returned(sol, s) ==
    [kind |-> "return", exc |-> "", solution |-> sol, solver |-> s,
     solved |-> FALSE, objective |-> EmptyDict, prerequisite |-> None]
Raised(exc, s) ==
    [kind |-> "raise", exc |-> exc, solution |-> Solution("", None, FALSE, EmptyDict), solver |-> s,
     solved |-> FALSE, objective |-> EmptyDict, prerequisite |-> None]
\* the same for what follows the solve that ended as `post`
ReturnedAfter(post, sol, s) == [post EXCEPT !.solution = sol, !.solver = s]
RaisedAfter(post, exc, s) ==
    [Raised(exc, s) EXCEPT !.solved = post.solved, !.objective = post.objective]

(***************************************************************************)
(* The solver instance (solvers/solver.py and its wrappers).               *)
(*   vars      id -> [lb, ub, vartype, persistent]                         *)
(*   constrs   id -> [lhs, sense, rhs]                                     *)
(*   flags     attributes set on the instance by the simulation methods    *)
(*   nadd      id -> number of add_variable/add_constraint calls with      *)
(*             persistent=False made for that id                           *)
(***************************************************************************)
NoSolver == [none |-> TRUE]
IsNone(s) == "none" \in DOMAIN s

solver_instance ==
    [vars |-> EmptyDict, constrs |-> EmptyDict, flags |-> {}, nadd |-> EmptyDict]

Count(s, name) == IF name \in DOMAIN s.nadd THEN s.nadd[name] ELSE 0

add_variable(s, var_id, lb, ub, vartype, persistent) ==
    [s EXCEPT !.vars = DictSet(@, var_id, [lb |-> lb, ub |-> ub, vartype |-> vartype,
                                           persistent |-> persistent]),
              !.nadd = IF persistent THEN @ ELSE DictSet(@, var_id, Count(s, var_id) + 1)]

add_constraint(s, constr_id, lhs, sense, rhs, persistent) ==
    [s EXCEPT !.constrs = DictSet(@, constr_id, [lhs |-> lhs, sense |-> sense, rhs |-> rhs]),
              !.nadd = IF persistent THEN @ ELSE DictSet(@, constr_id, Count(s, constr_id) + 1)]

remove_constraint(s, constr_id) == [s EXCEPT !.constrs = DictDel(@, constr_id)]

RECURSIVE BuildVars(_, _, _)
BuildVars(s, m, i) ==
    IF i > Len(m.reaction_ids) THEN s
    ELSE LET r_id == m.reaction_ids[i]
             r == m.reactions[r_id]
         IN BuildVars(add_variable(s, r_id, Some(r.lb), Some(r.ub), "CONTINUOUS", TRUE), m, i + 1)

RECURSIVE BuildConstrs(_, _, _)
BuildConstrs(s, m, mets) ==
    IF mets = {} THEN s
    ELSE LET m_id == CHOOSE x \in mets : TRUE
             lhs == [r_id \in {r \in DOMAIN m.reactions : m_id \in DOMAIN m.reactions[r].stoichiometry}
                        |-> m.reactions[r_id].stoichiometry[m_id]]
         IN BuildConstrs(add_constraint(s, m_id, lhs, "=", 0, TRUE), m, mets \ {m_id})

\* one variable per reaction with the reaction's bounds, one balance row per metabolite
build_problem(s, m) == BuildConstrs(BuildVars(s, m, 1), m, m.metabolites)

Fresh(m) == build_problem(solver_instance, m)

(***************************************************************************)
(* solve_lp / solve_qp by enumeration of the integer points of the         *)
(* feasible region.                                                        *)
(***************************************************************************)
\* Where a variable has no bound (None) it ranges to `big`: twice the largest
\* finite bound of the problem, which no split part of a flux and no
\* deviation from a reference within the bounds exceeds.
Max(S) == CHOOSE x \in S : \A y \in S : x >= y
Big(s) ==
    2 * Max({0} \cup {Abs(s.vars[v].lb[1]) : v \in {w \in DOMAIN s.vars : s.vars[w].lb # None}}
                \cup {Abs(s.vars[v].ub[1]) : v \in {w \in DOMAIN s.vars : s.vars[w].ub # None}})

Lo(v, constraints, var_id, big) ==
    IF var_id \in DOMAIN constraints THEN constraints[var_id][1]
    ELSE IF v.vartype = "BINARY" THEN 0
    ELSE IF v.lb = None THEN -big ELSE v.lb[1]

Hi(v, constraints, var_id, big) ==
    IF var_id \in DOMAIN constraints THEN constraints[var_id][2]
    ELSE IF v.vartype = "BINARY" THEN 1
    ELSE IF v.ub = None THEN big ELSE v.ub[1]

Satisfies(x, c) ==
    LET l == Dot(c.lhs, x)
    IN CASE c.sense = "=" -> l = c.rhs
         [] c.sense = "<" -> l <= c.rhs
         [] c.sense = ">" -> l >= c.rhs

\* the assignments to the variables `done` extended over `todo`, keeping
\* those that satisfy every constraint whose variables are all assigned
RECURSIVE Extend(_, _, _, _, _, _)
Extend(points, s, constraints, big, done, todo) ==
    IF todo = {} THEN points
    ELSE LET var_id == CHOOSE v \in todo : TRUE
             seen == done \cup {var_id}
             rows == {c \in DOMAIN s.constrs :
                         /\ var_id \in DOMAIN s.constrs[c].lhs
                         /\ DOMAIN s.constrs[c].lhs \subseteq seen}
             ext == {DictSet(x, var_id, val) :
                         x \in points,
                         val \in Lo(s.vars[var_id], constraints, var_id, big)
                                 .. Hi(s.vars[var_id], constraints, var_id, big)}
         IN Extend({x \in ext : \A c \in rows : Satisfies(x, s.constrs[c])},
                   s, constraints, big, seen, todo \ {var_id})

\* the feasible region: the model's own variables first, the added ones after
Feasible(s, constraints) ==
    LET own == {v \in DOMAIN s.vars : s.vars[v].persistent}
        big == Big(s)
    IN Extend(Extend({EmptyDict}, s, constraints, big, {}, own),
              s, constraints, big, own, DOMAIN s.vars \ own)

\* the points of `region` at which `value` is least (minimize) or greatest
Best(region, value(_), minimize) ==
    LET vs == {value(x) : x \in region}
        opt == CHOOSE v \in vs : \A w \in vs : IF minimize THEN v <= w ELSE v >= w
    IN {x \in region : value(x) = opt}

\* a non-optimal Solution carries neither an objective value nor values
NonOptimal == {Solution(INFEASIBLE, None, FALSE, EmptyDict)}

Solve(s, constraints, value(_), minimize, mode) ==
    IF mode = "any"
    THEN {Solution(OPTIMAL, Some(0), TRUE, [n \in DOMAIN s.vars |-> 0])} \cup NonOptimal
    ELSE LET region == Feasible(s, constraints)
         IN IF region = {} THEN NonOptimal
            ELSE {Solution(OPTIMAL, Some(value(x)), TRUE, x) : x \in Best(region, value, minimize)}

\* every name of the objective and of the overrides must be a registered variable
solve_lp(s, objective, minimize, constraints, mode) ==
    LET value(x) == Dot(objective, x)
        asked(o) == [o EXCEPT !.solved = TRUE, !.objective = objective]
    IN IF ~(DOMAIN objective \cup DOMAIN constraints \subseteq DOMAIN s.vars)
       THEN {asked(Raised("LookupError", s))}
       ELSE {asked(Returned(sol, s)) : sol \in Solve(s, constraints, value, minimize, mode)}

(***************************************************************************)
(* FBA                                                                     *)
(***************************************************************************)
FBA(m, objective, minimize, constraints, s0, mode) ==
    LET obj == IF objective = EmptyDict THEN m.objective ELSE objective
        s == IF IsNone(s0) THEN Fresh(m) ELSE s0
    IN solve_lp(s, obj, minimize, constraints, mode)

(***************************************************************************)
(* The flux model (core/models.py), as simulation.py reads it.             *)
(***************************************************************************)
reversible(m, r_id) == m.reactions[r_id].lb < 0

\* result of a loop over a list that a failed lookup may cut short
Done(s) == [exc |-> "", s |-> s]
Failed(exc, s) == [exc |-> exc, s |-> s]

(***************************************************************************)
(* pFBA                                                                    *)
(***************************************************************************)
\* simulation.py 89-93
RECURSIVE pFBA_add_variables(_, _, _, _)
pFBA_add_variables(s, m, reactions, i) ==
    IF i > Len(reactions) THEN Done(s)
    ELSE LET r_id == reactions[i]
             pos == r_id \o "+"
             neg == r_id \o "-"
         IN IF r_id \notin DOMAIN m.reactions THEN Failed("KeyError", s)
            ELSE IF reversible(m, r_id)
            THEN pFBA_add_variables(
                     add_variable(add_variable(s, pos, Some(0), None, "CONTINUOUS", FALSE),
                                  neg, Some(0), None, "CONTINUOUS", FALSE),
                     m, reactions, i + 1)
            ELSE pFBA_add_variables(s, m, reactions, i + 1)

\* simulation.py 95-99
RECURSIVE pFBA_add_constraints(_, _, _, _)
pFBA_add_constraints(s, m, reactions, i) ==
    IF i > Len(reactions) THEN Done(s)
    ELSE LET r_id == reactions[i]
             pos == r_id \o "+"
             neg == r_id \o "-"
         IN IF r_id \notin DOMAIN m.reactions THEN Failed("KeyError", s)
            ELSE IF reversible(m, r_id)
            THEN pFBA_add_constraints(
                     add_constraint(
                         add_constraint(s, "c" \o pos, DictSet(DictSet(EmptyDict, r_id, -1), pos, 1),
                                        ">", 0, FALSE),
                         "c" \o neg, DictSet(DictSet(EmptyDict, r_id, 1), neg, 1), ">", 0, FALSE),
                     m, reactions, i + 1)
            ELSE pFBA_add_constraints(s, m, reactions, i + 1)

\* pFBA_installed of a guard that never sees the flag
pFBA_never_installed(s) == FALSE

\* simulation.py 87: hasattr(solver, 'pFBA_flag')
pFBA_installed(s) == "pFBA_flag" \in s.flags

\* simulation.py 87-100: the guarded installation of the split variables
pFBA_install(s, m, reactions) ==
    IF pFBA_installed(s) THEN Done(s)
    ELSE LET s1 == [s EXCEPT !.flags = @ \cup {"pFBA_flag"}]
             a == pFBA_add_variables(s1, m, reactions, 1)
         IN IF a.exc # "" THEN a ELSE pFBA_add_constraints(a.s, m, reactions, 1)

\* pFBA_terms without the split: the flux itself is minimized
pFBA_terms_unsplit(m, r_id) == (r_id :> 1)

\* simulation.py 104-109: what one listed reaction adds to the minimized sum
pFBA_terms(m, r_id) ==
    IF reversible(m, r_id) THEN ((r_id \o "+") :> 1) @@ ((r_id \o "-") :> 1) ELSE (r_id :> 1)

\* simulation.py 102-109; exc is "KeyError" when a listed id is no reaction
RECURSIVE pFBA_objective(_, _, _, _)
pFBA_objective(objective, m, reactions, i) ==
    IF i > Len(reactions) THEN [exc |-> "", objective |-> objective]
    ELSE LET r_id == reactions[i]
         IN IF r_id \notin DOMAIN m.reactions THEN [exc |-> "KeyError", objective |-> objective]
            ELSE pFBA_objective(pFBA_terms(m, r_id) @@ objective, m, reactions, i + 1)

\* simulation.py 118-123; exc is "KeyError" when a key to delete is absent
RECURSIVE pFBA_strip(_, _, _, _)
pFBA_strip(values, m, reactions, i) ==
    IF i > Len(reactions) THEN [exc |-> "", values |-> values]
    ELSE LET r_id == reactions[i]
             pos == r_id \o "+"
             neg == r_id \o "-"
         IN IF reversible(m, r_id)
            THEN IF pos \in DOMAIN values /\ neg \in DOMAIN values
                 THEN pFBA_strip(DictDel(DictDel(values, pos), neg), m, reactions, i + 1)
                 ELSE [exc |-> "KeyError", values |-> values]
            ELSE pFBA_strip(values, m, reactions, i + 1)

\* pFBA_remove_obj leaving the constraint in place
pFBA_remove_obj_skipped(s) == s

\* simulation.py 115
pFBA_remove_obj(s) == remove_constraint(s, "obj")

\* simulation.py 82-125 but for line 116, after an optimal pre-solve of value
\* fobj that left the solver as `s`
pFBA_second_phase(m, obj, constraints, reactions0, fobj, s, mode) ==
    LET s1 == add_constraint(s, "obj", obj, "=", fobj, TRUE)
        reactions == IF reactions0 = <<>> THEN m.reaction_ids ELSE reactions0
        inst == pFBA_install(s1, m, reactions)
        o == pFBA_objective(EmptyDict, m, reactions, 1)
        finish(post) ==
            IF post.kind = "raise" THEN post
            ELSE LET s2 == pFBA_remove_obj(post.solver)
                     sol == post.solution
                     st == pFBA_strip(sol.values, m, reactions, 1)
                 IN IF sol.status # OPTIMAL THEN ReturnedAfter(post, sol, s2)
                    ELSE IF st.exc # "" THEN RaisedAfter(post, st.exc, s2)
                    ELSE ReturnedAfter(post, [sol EXCEPT !.values = st.values], s2)
    IN IF inst.exc # "" THEN {Raised(inst.exc, inst.s)}
       ELSE IF o.exc # "" THEN {Raised(o.exc, inst.s)}
       ELSE {finish(post) : post \in solve_lp(inst.s, o.objective, TRUE, constraints, mode)}

\* simulation.py 116: solution.pre_solution = pre_solution
pFBA_attach(o, pre) ==
    IF o.kind = "return"
    THEN [o EXCEPT !.solution.pre_solution = Some(pre), !.prerequisite = Some(pre)]
    ELSE [o EXCEPT !.prerequisite = Some(pre)]

\* simulation.py 55-125.  The second phase reads the pre-solve only through
\* its objective value and the solver it leaves, so it is run once for each.
pFBA(m, objective, minimize, constraints, reactions, s0, mode) ==
    LET s == IF IsNone(s0) THEN Fresh(m) ELSE s0
        obj == IF objective = EmptyDict THEN m.objective ELSE objective
        pres == FBA(m, obj, minimize, constraints, s, mode)
        early == {p \in pres : p.kind = "raise" \/ p.solution.status # OPTIMAL}
        keys == {<<p.solver, p.solution.fobj[1]>> : p \in pres \ early}
        late(k) ==
            LET second == pFBA_second_phase(m, obj, constraints, reactions, k[2], k[1], mode)
            IN {pFBA_attach(o, p.solution) :
                    o \in second,
                    p \in {q \in pres \ early : <<q.solver, q.solution.fobj[1]>> = k}}
        \* simulation.py 79-80: return pre_solution
        back(p) == IF p.kind = "raise" THEN p ELSE [p EXCEPT !.prerequisite = Some(p.solution)]
    IN {back(p) : p \in early} \cup UNION {late(k) : k \in keys}

(***************************************************************************)
(* looplessFBA                                                             *)
(***************************************************************************)
\* simulation.py 130
M == 10000

\* the null-space filter of simulation.py 169 (1e-12) keeps exactly the
\* nonzero coefficients of an integer basis
Nonzero(coeff) == Abs(coeff) > 0

\* all vectors over `internal` with entries in -1..1
RECURSIVE Vectors(_)
Vectors(n) ==
    IF n = 0 THEN {<<>>} ELSE {Append(v, c) : v \in Vectors(n - 1), c \in -1..1}

RECURSIVE SeqOf(_)
SeqOf(S) == IF S = {} THEN <<>> ELSE LET x == CHOOSE x \in S : TRUE IN <<x>> \o SeqOf(S \ {x})

\* experimental/mathutils.py nullspace, for a matrix given as Sint[m_id][j]:
\* rows spanning the null space; here the vectors of the kernel with entries
\* in -1..1 whose first nonzero entry is positive
nullspace(Sint, n) ==
    SeqOf({v \in Vectors(n) :
            /\ \E j \in 1..n : v[j] # 0
            /\ \A j \in 1..n : (v[j] # 0 /\ \A k \in 1..(j - 1) : v[k] = 0) => v[j] > 0
            /\ \A m_id \in DOMAIN Sint :
                   SumOver(1..n, [j \in 1..n |-> Sint[m_id][j] * v[j]]) = 0})

\* simulation.py 142-144
RECURSIVE looplessFBA_internal(_, _)
looplessFBA_internal(m, i) ==
    IF i > Len(m.reaction_ids) THEN <<>>
    ELSE (IF Cardinality(DOMAIN m.reactions[m.reaction_ids[i]].stoichiometry) > 1
          THEN <<m.reaction_ids[i]>> ELSE <<>>) \o looplessFBA_internal(m, i + 1)

\* simulation.py 153-156
RECURSIVE looplessFBA_add_variables(_, _, _)
looplessFBA_add_variables(s, internal, i) ==
    IF i > Len(internal) THEN s
    ELSE LET a == "a" \o internal[i]
             g == "g" \o internal[i]
         IN looplessFBA_add_variables(
                add_variable(add_variable(s, g, None, None, "CONTINUOUS", FALSE),
                             a, Some(0), Some(1), "BINARY", FALSE),
                internal, i + 1)

\* simulation.py 159-164
RECURSIVE looplessFBA_add_constraints(_, _, _)
looplessFBA_add_constraints(s, internal, i) ==
    IF i > Len(internal) THEN s
    ELSE LET r_id == internal[i]
             a == "a" \o r_id
             g == "g" \o r_id
             s1 == add_constraint(s, "c1_" \o r_id, (a :> M) @@ (r_id :> -1), "<", M, FALSE)
             s2 == add_constraint(s1, "c2_" \o r_id, (a :> -M) @@ (r_id :> 1), "<", 0, FALSE)
             s3 == add_constraint(s2, "c3_" \o r_id, (a :> M + 1) @@ (g :> 1), ">", 1, FALSE)
             s4 == add_constraint(s3, "c4_" \o r_id, (a :> M + 1) @@ (g :> 1), "<", M, FALSE)
         IN looplessFBA_add_constraints(s4, internal, i + 1)

\* 'n{}'.format(i)
Digits == <<"0", "1", "2", "3", "4", "5", "6", "7", "8", "9">>
RECURSIVE Format(_)
Format(i) == IF i < 10 THEN Digits[i + 1] ELSE Format(i \div 10) \o Digits[(i % 10) + 1]

\* looplessFBA_add_nullspace adding no row
looplessFBA_add_nullspace_skipped(s, internal, Nint, i) == s

\* simulation.py 168-170; enumerate counts from 0
RECURSIVE looplessFBA_add_nullspace(_, _, _, _)
looplessFBA_add_nullspace(s, internal, Nint, i) ==
    IF i > Len(Nint) THEN s
    ELSE LET row == Nint[i]
             js == {j \in 1..Len(internal) : Nonzero(row[j])}
             expr == [n \in {"g" \o internal[j] : j \in js} |->
                        row[CHOOSE j \in js : "g" \o internal[j] = n]]
         IN looplessFBA_add_nullspace(
                add_constraint(s, "n" \o Format(i - 1), expr, "=", 0, FALSE),
                internal, Nint, i + 1)

\* simulation.py 139-172
looplessFBA_install(s, m, internal0) ==
    IF "ll_FBA_flag" \in s.flags THEN Done(s)
    ELSE LET s1 == [s EXCEPT !.flags = @ \cup {"ll_FBA_flag"}]
             internal == IF internal0 = <<>> THEN looplessFBA_internal(m, 1) ELSE internal0
             Sint == [m_id \in m.metabolites |->
                        [j \in 1..Len(internal) |->
                            IF m_id \in DOMAIN m.reactions[internal[j]].stoichiometry
                            THEN m.reactions[internal[j]].stoichiometry[m_id] ELSE 0]]
             Nint == nullspace(Sint, Len(internal))
         IN IF ~(Range(internal) \subseteq DOMAIN m.reactions) THEN Failed("KeyError", s1)
            ELSE Done(looplessFBA_add_nullspace(
                          looplessFBA_add_constraints(
                              looplessFBA_add_variables(s1, internal, 1), internal, 1),
                          internal, Nint, 1))

\* simulation.py 128-179
looplessFBA(m, objective, minimize, constraints, internal, s0, mode) ==
    LET s == IF IsNone(s0) THEN Fresh(m) ELSE s0
        obj == IF objective = EmptyDict THEN m.objective ELSE objective
        inst == looplessFBA_install(s, m, internal)
    IN IF inst.exc # "" THEN {Raised(inst.exc, inst.s)}
       ELSE solve_lp(inst.s, obj, minimize, constraints, mode)

(***************************************************************************)
(* MOMA                                                                    *)
(***************************************************************************)
\* the quadratic objective: sum of q * x_i * x_j plus the linear terms
solve_qp(s, quad_obj, lin_obj, minimize, constraints, mode) ==
    LET value(x) ==
            SumOver(DOMAIN quad_obj, [k \in DOMAIN quad_obj |-> quad_obj[k] * x[k[1]] * x[k[2]]])
            + Dot(lin_obj, x)
        names == {k[1] : k \in DOMAIN quad_obj} \cup DOMAIN lin_obj \cup DOMAIN constraints
    IN IF ~(names \subseteq DOMAIN s.vars) THEN {Raised("LookupError", s)}
       ELSE {Returned(sol, s) : sol \in Solve(s, constraints, value, minimize, mode)}

\* what `.values` of a Solution may be read as: a Solution without values may
\* hold None or an empty dict there
Values(sol) == IF sol.has_values THEN {sol} ELSE {sol, [sol EXCEPT !.has_values = TRUE]}

\* simulation.py 195-197, 224-226, 281-283: the reference a call works with.
\* `given` is the caller's; when it is empty or None the wild type is the
\* pFBA solution of the model on a solver of its own (default is TRUE), and
\* the reference is that solution's values.
References(m, given, mode) ==
    IF given # EmptyDict
    THEN {[default |-> FALSE, raised |-> FALSE, solution |-> Solution("", None, TRUE, given)]}
    ELSE {[default |-> TRUE, raised |-> wt[1].kind = "raise", solution |-> wt[2]] :
             wt \in UNION {{<<o, v>> : v \in Values(o.solution)} :
                               o \in pFBA(m, EmptyDict, FALSE, EmptyDict, <<>>, NoSolver, mode)}}

\* the outcome `o` of a call that worked with the reference `ref`
WithReference(o, ref) ==
    IF ref.default THEN [o EXCEPT !.prerequisite = Some(ref.solution)] ELSE o

\* simulation.py 199-208
MOMA_solve(m, ref, constraints, s0, mode) ==
    LET reference == ref.solution.values
        quad_obj == [k \in {<<r_id, r_id>> : r_id \in DOMAIN reference} |-> 1]
        lin_obj == [r_id \in DOMAIN reference |-> -2 * reference[r_id]]
        s == IF IsNone(s0) THEN Fresh(m) ELSE s0
    IN IF ref.raised THEN {Raised("LookupError", s0)}
       ELSE IF ~ref.solution.has_values THEN {Raised("AttributeError", s0)}
       ELSE solve_qp(s, quad_obj, lin_obj, TRUE, constraints, mode)

\* simulation.py 182-208
MOMA(m, reference, constraints, s0, mode) ==
    UNION {{WithReference(o, ref) : o \in MOMA_solve(m, ref, constraints, s0, mode)} :
              ref \in References(m, reference, mode)}

(***************************************************************************)
(* lMOMA                                                                   *)
(***************************************************************************)
\* simulation.py 234-237
RECURSIVE lMOMA_add_variables(_, _)
lMOMA_add_variables(s, keys) ==
    IF keys = {} THEN s
    ELSE LET r_id == CHOOSE r \in keys : TRUE
         IN lMOMA_add_variables(
                add_variable(add_variable(s, r_id \o "_d+", Some(0), None, "CONTINUOUS", FALSE),
                             r_id \o "_d-", Some(0), None, "CONTINUOUS", FALSE),
                keys \ {r_id})

\* simulation.py 239-242
RECURSIVE lMOMA_add_constraints(_, _, _)
lMOMA_add_constraints(s, reference, keys) ==
    IF keys = {} THEN s
    ELSE LET r_id == CHOOSE r \in keys : TRUE
             d_pos == r_id \o "_d+"
             d_neg == r_id \o "_d-"
             s1 == add_constraint(s, "c" \o d_pos, (r_id :> -1) @@ (d_pos :> 1), ">",
                                  -reference[r_id], FALSE)
             s2 == add_constraint(s1, "c" \o d_neg, (r_id :> 1) @@ (d_neg :> 1), ">",
                                  reference[r_id], FALSE)
         IN lMOMA_add_constraints(s2, reference, keys \ {r_id})

\* simulation.py 232-243
lMOMA_install(s, reference) ==
    IF "lMOMA_flag" \in s.flags THEN s
    ELSE lMOMA_add_constraints(
             lMOMA_add_variables([s EXCEPT !.flags = @ \cup {"lMOMA_flag"}], DOMAIN reference),
             reference, DOMAIN reference)

\* simulation.py 245-249
lMOMA_objective(reference) ==
    [n \in {r_id \o "_d+" : r_id \in DOMAIN reference} \cup {r_id \o "_d-" : r_id \in DOMAIN reference}
        |-> 1]

\* simulation.py 254-258
lMOMA_strip(values, reference) ==
    LET aux == DOMAIN lMOMA_objective(reference)
    IN IF aux \subseteq DOMAIN values
       THEN [exc |-> "", values |-> [n \in DOMAIN values \ aux |-> values[n]]]
       ELSE [exc |-> "KeyError", values |-> values]

\* simulation.py 228-260
lMOMA_solve(m, ref, constraints, s0, mode) ==
    LET reference == ref.solution.values
        s == IF IsNone(s0) THEN Fresh(m) ELSE s0
        \* with reference None, reference.keys() fails once the flag is set
        flagged == [s EXCEPT !.flags = @ \cup {"lMOMA_flag"}]
        s1 == lMOMA_install(s, reference)
        finish(post) ==
            IF post.kind = "raise" THEN post
            ELSE LET sol == post.solution
                     st == lMOMA_strip(sol.values, reference)
                 IN IF sol.status # OPTIMAL THEN post
                    ELSE IF st.exc # "" THEN RaisedAfter(post, st.exc, post.solver)
                    ELSE ReturnedAfter(post, [sol EXCEPT !.values = st.values], post.solver)
    IN IF ref.raised THEN {Raised("LookupError", s0)}
       ELSE IF ~ref.solution.has_values THEN {Raised("AttributeError", flagged)}
       ELSE {finish(post) : post \in solve_lp(s1, lMOMA_objective(reference), TRUE, constraints, mode)}

\* simulation.py 211-260
lMOMA(m, reference, constraints, s0, mode) ==
    UNION {{WithReference(o, ref) : o \in lMOMA_solve(m, ref, constraints, s0, mode)} :
              ref \in References(m, reference, mode)}

(***************************************************************************)
(* ROOM.  The tolerances are decimal fractions; the two threshold rows are *)
(* kept multiplied by Scale so that every coefficient is an integer.       *)
(***************************************************************************)
Scale == 1000
\* simulation.py 278-279
U == 1000000
L == -1000000
\* simulation.py 263: delta=0.03 and epsilon=0.001, times Scale
Delta == 30
Epsilon == 1

\* simulation.py 293-296
RECURSIVE ROOM_add_variables(_, _, _)
ROOM_add_variables(so, m, i) ==
    IF i > Len(m.reaction_ids) THEN so
    ELSE LET y_i == "y_" \o m.reaction_ids[i]
         IN ROOM_add_variables(
                [s |-> add_variable(so.s, y_i, Some(0), Some(1), "BINARY", FALSE),
                 objective |-> DictSet(so.objective, y_i, 1)],
                m, i + 1)

\* simulation.py 299-305, with w_u and w_l times Scale
RECURSIVE ROOM_add_constraints(_, _, _, _, _, _, _)
ROOM_add_constraints(s, m, has_reference, reference, delta, epsilon, i) ==
    IF i > Len(m.reaction_ids) THEN Done(s)
    ELSE LET r_id == m.reaction_ids[i]
             y_i == "y_" \o r_id
             w_i == reference[r_id]
             w_u == Scale * w_i + delta * Abs(w_i) + epsilon
             w_l == Scale * w_i - delta * Abs(w_i) - epsilon
             s1 == add_constraint(s, "c" \o r_id \o "_u",
                                  (r_id :> Scale) @@ (y_i :> (w_u - Scale * U)), "<", w_u, FALSE)
             s2 == add_constraint(s1, "c" \o r_id \o "_l",
                                  (r_id :> Scale) @@ (y_i :> (w_l - Scale * L)), ">", w_l, FALSE)
         IN IF ~has_reference THEN Failed("TypeError", s)
            ELSE IF r_id \notin DOMAIN reference THEN Failed("KeyError", s)
            ELSE ROOM_add_constraints(s2, m, has_reference, reference, delta, epsilon, i + 1)

\* simulation.py 289-306: the objective is filled only while installing
ROOM_install(s, m, has_reference, reference, delta, epsilon) ==
    IF "ROOM_flag" \in s.flags THEN [exc |-> "", s |-> s, objective |-> EmptyDict]
    ELSE LET s1 == [s EXCEPT !.flags = @ \cup {"ROOM_flag"}]
             so == ROOM_add_variables([s |-> s1, objective |-> EmptyDict], m, 1)
             c == ROOM_add_constraints(so.s, m, has_reference, reference, delta, epsilon, 1)
         IN [exc |-> c.exc, s |-> c.s, objective |-> so.objective]

\* simulation.py 311-314
ROOM_strip(values, m) ==
    LET aux == {"y_" \o r_id : r_id \in Range(m.reaction_ids)}
    IN IF aux \subseteq DOMAIN values
       THEN [exc |-> "", values |-> [n \in DOMAIN values \ aux |-> values[n]]]
       ELSE [exc |-> "KeyError", values |-> values]

\* simulation.py 285-316
ROOM_solve(m, ref, constraints, s0, delta, epsilon, mode) ==
    LET s == IF IsNone(s0) THEN Fresh(m) ELSE s0
        inst == ROOM_install(s, m, ref.solution.has_values, ref.solution.values, delta, epsilon)
        finish(post) ==
            IF post.kind = "raise" THEN post
            ELSE LET sol == post.solution
                     st == ROOM_strip(sol.values, m)
                 IN IF sol.status # OPTIMAL THEN post
                    ELSE IF st.exc # "" THEN RaisedAfter(post, st.exc, post.solver)
                    ELSE ReturnedAfter(post, [sol EXCEPT !.values = st.values], post.solver)
    IN IF ref.raised THEN {Raised("LookupError", s0)}
       ELSE IF inst.exc # "" THEN {Raised(inst.exc, inst.s)}
       ELSE {finish(post) : post \in solve_lp(inst.s, inst.objective, TRUE, constraints, mode)}

\* simulation.py 263-316
ROOM(m, reference, constraints, s0, delta, epsilon, mode) ==
    UNION {{WithReference(o, ref) : o \in ROOM_solve(m, ref, constraints, s0, delta, epsilon, mode)} :
              ref \in References(m, reference, mode)}

(***************************************************************************)
(* Flux models the calls are made on.                                      *)
(***************************************************************************)
Reaction(stoichiometry, lb, ub) == [stoichiometry |-> stoichiometry, lb |-> lb, ub |-> ub]

Bounds == {<<lb, ub>> \in (-MaxBound..MaxBound) \X (-MaxBound..MaxBound) : lb <= ub}

\* uptake and output coupled 1:1 through one metabolite, both bounded [0, 10]
ToyModel ==
    [reaction_ids |-> <<"R_in", "R_out">>,
     reactions |-> ("R_in" :> Reaction("M" :> 1, 0, 10)) @@ ("R_out" :> Reaction("M" :> -1, 0, 10)),
     metabolites |-> {"M"},
     objective |-> ("R_out" :> 1)]

\* r1 takes A up, r3 exchanges A in either direction and r2 drains A (or,
\* run backwards, feeds it); the bounds are drawn from the grid
BranchModel(b1, b2, b3, target) ==
    [reaction_ids |-> <<"r1", "r2", "r3">>,
     reactions |-> ("r1" :> Reaction("A" :> 1, b1[1], b1[2]))
                   @@ ("r2" :> Reaction("A" :> -1, b2[1], b2[2]))
                   @@ ("r3" :> Reaction("A" :> 1, b3[1], b3[2])),
     metabolites |-> {"A"},
     objective |-> (target :> 1)]

BranchModels ==
    {BranchModel(<<0, u1>>, b2, b3, "r2") : u1 \in 0..MaxBound, b2 \in Bounds, b3 \in Bounds}

NoCall == [op |-> "none"]
NoOutcome == [kind |-> "none"]

\* a call ends in one of the ways `outs`; the caller's instance changes only
\* when it was passed to the call
Do(c, outs) ==
    \E o \in outs :
        /\ call' = c
        /\ outcome' = o
        /\ before' = solver
        /\ solver' = IF c.shared THEN o.solver ELSE solver
        /\ UNCHANGED <<model, oracle>>

(***************************************************************************)
(* FBA and pFBA, each on a solver instance of its own, solved exactly.     *)
(***************************************************************************)
InitParsimonious ==
    /\ model \in {ToyModel} \cup BranchModels
    /\ solver = Fresh(model)
    /\ before = solver
    /\ call = NoCall
    /\ outcome = NoOutcome
    /\ oracle = "exact"

FreshFBA ==
    \E minimize \in BOOLEAN :
        Do([op |-> "FBA", objective |-> EmptyDict, minimize |-> minimize,
            constraints |-> EmptyDict, shared |-> FALSE],
           FBA(model, EmptyDict, minimize, EmptyDict, NoSolver, oracle))

FreshpFBA ==
    \E minimize \in BOOLEAN :
        Do([op |-> "pFBA", objective |-> EmptyDict, minimize |-> minimize,
            constraints |-> EmptyDict, reactions |-> <<>>, shared |-> FALSE],
           pFBA(model, EmptyDict, minimize, EmptyDict, <<>>, NoSolver, oracle))

NextParsimonious == FreshFBA \/ FreshpFBA

SpecParsimonious == InitParsimonious /\ [][NextParsimonious]_vars

\* sum of |flux| over the reactions of the model
TotalFlux(m, values) ==
    SumOver(DOMAIN m.reactions, [r_id \in DOMAIN m.reactions |-> Abs(values[r_id])])

\* the optimal Solutions FBA can return for the model on a solver of its own
FBAOptima(m, objective, minimize, constraints) ==
    {f.solution : f \in {g \in FBA(m, objective, minimize, constraints, NoSolver, "exact") :
                            g.kind = "return" /\ g.solution.status = OPTIMAL}}

pFBAReturnedOptimal ==
    /\ call.op = "pFBA"
    /\ outcome.kind = "return"
    /\ outcome.solution.status = OPTIMAL

\* C5: on a solver of its own with all reactions minimized, the flux vector
\* pFBA returns gives the primary objective its FBA optimum and has a total
\* absolute flux no greater than that of any FBA-optimal flux vector; on the
\* toy network FBA returns objective 10 and pFBA objective 10 with total flux 20.
C5_Parsimonious ==
    /\ pFBAReturnedOptimal =>
           \A b \in FBAOptima(model, EmptyDict, call.minimize, EmptyDict) :
               /\ Dot(model.objective, outcome.solution.values) = b.fobj[1]
               /\ TotalFlux(model, outcome.solution.values) <= TotalFlux(model, b.values)
    /\ (model = ToyModel /\ call.op \in {"FBA", "pFBA"} /\ ~call.minimize) =>
           /\ outcome.kind = "return"
           /\ outcome.solution.status = OPTIMAL
           /\ Dot(model.objective, outcome.solution.values) = 10
           /\ outcome.solution.values["R_out"] = 10
           /\ call.op = "FBA" => outcome.solution.fobj = Some(10)
           /\ call.op = "pFBA" => TotalFlux(model, outcome.solution.values) = 20

\* pFBA has returned where some FBA optimum carries strictly more flux
C5_Witness ==
    /\ pFBAReturnedOptimal
    /\ \E r_id \in DOMAIN model.reactions : reversible(model, r_id)
    /\ \E b \in FBAOptima(model, EmptyDict, call.minimize, EmptyDict) :
           TotalFlux(model, b.values) > TotalFlux(model, outcome.solution.values)

(***************************************************************************)
(* FBA on a solver of its own and looplessFBA on the caller's, on a model  *)
(* with an internal cycle; solved exactly.                                 *)
(***************************************************************************)
\* AB turns A into B and BA turns B back into A, both reversible; EX_A is a
\* boundary reaction of A that the balance of A and B keeps at zero
CycleModel(lAB, uAB, lBA, uBA, uEX) ==
    [reaction_ids |-> <<"EX_A", "AB", "BA">>,
     reactions |-> ("EX_A" :> Reaction("A" :> 1, 0, uEX))
                   @@ ("AB" :> Reaction(("A" :> -1) @@ ("B" :> 1), lAB, uAB))
                   @@ ("BA" :> Reaction(("B" :> -1) @@ ("A" :> 1), lBA, uBA)),
     metabolites |-> {"A", "B"},
     objective |-> ("AB" :> 1)]

CycleModels ==
    {CycleModel(lAB, uAB, -MaxBound, MaxBound, uEX) :
        lAB \in -MaxBound..-1, uAB \in 1..MaxBound, uEX \in {0, MaxBound}}

CycleObjectives == {EmptyDict, "BA" :> 1, "EX_A" :> 1}

\* no override, and the cycle forced to carry flux
CycleConstraints == {EmptyDict, "AB" :> <<1, 1>>}

InitLoopless ==
    /\ model \in CycleModels
    /\ solver = Fresh(model)
    /\ before = solver
    /\ call = NoCall
    /\ outcome = NoOutcome
    /\ oracle = "exact"

CycleFBA ==
    \E objective \in CycleObjectives, minimize \in BOOLEAN, constraints \in CycleConstraints :
        Do([op |-> "FBA", objective |-> objective, minimize |-> minimize,
            constraints |-> constraints, shared |-> FALSE],
           FBA(model, objective, minimize, constraints, NoSolver, oracle))

CyclelooplessFBA ==
    \E objective \in CycleObjectives, minimize \in BOOLEAN, constraints \in CycleConstraints :
        Do([op |-> "looplessFBA", objective |-> objective, minimize |-> minimize,
            constraints |-> constraints, internal |-> <<>>, shared |-> TRUE],
           looplessFBA(model, objective, minimize, constraints, <<>>, solver, oracle))

NextLoopless == CycleFBA \/ CyclelooplessFBA

SpecLoopless == InitLoopless /\ [][NextLoopless]_vars

\* C6: on the cycle model every point feasible under the looplessFBA
\* augmentation has zero flux through AB and BA, and so has the returned
\* solution, while the problem as built admits nonzero flux through both.
C6_NoCycleFlux ==
    (call.op = "looplessFBA" /\ outcome.kind = "return") =>
        /\ \A x \in Feasible(solver, call.constraints) : x["AB"] = 0 /\ x["BA"] = 0
        /\ outcome.solution.status = OPTIMAL =>
               outcome.solution.values["AB"] = 0 /\ outcome.solution.values["BA"] = 0
        /\ \E x \in Feasible(Fresh(model), EmptyDict) : x["AB"] # 0 /\ x["BA"] # 0

\* looplessFBA has returned zero cycle flux where FBA, asked the same, can
\* return flux through the cycle
C6_Witness ==
    /\ call.op = "looplessFBA"
    /\ outcome.kind = "return"
    /\ outcome.solution.status = OPTIMAL
    /\ outcome.solution.values["AB"] = 0
    /\ \E b \in FBAOptima(model, call.objective, call.minimize, call.constraints) :
           b.values["AB"] # 0 /\ b.values["BA"] # 0

(***************************************************************************)
(* lMOMA on the caller's solver with references that differ from call to   *)
(* call; solved exactly.                                                   *)
(***************************************************************************)
\* r1 takes A up, r2 (reversible) and r3 drain it
DrainModel ==
    [reaction_ids |-> <<"r1", "r2", "r3">>,
     reactions |-> ("r1" :> Reaction("A" :> 1, 0, MaxRef))
                   @@ ("r2" :> Reaction("A" :> -1, -MaxRef, MaxRef))
                   @@ ("r3" :> Reaction("A" :> -1, 0, MaxRef)),
     metabolites |-> {"A"},
     objective |-> ("r3" :> 1)]

\* references over r1 and r2, among them {r1: MaxRef, r2: -MaxRef}
DrainReferences == {("r1" :> a) @@ ("r2" :> b) : a \in {0, MaxRef}, b \in {-MaxRef, 0}}

\* no override, r2 forced to 0, the uptake closed
DrainConstraints == {EmptyDict, "r2" :> <<0, 0>>, "r1" :> <<0, 0>>}

InitLMOMA ==
    /\ model = DrainModel
    /\ solver = Fresh(model)
    /\ before = solver
    /\ call = NoCall
    /\ outcome = NoOutcome
    /\ oracle = "exact"

DrainlMOMA ==
    \E reference \in DrainReferences, constraints \in DrainConstraints :
        Do([op |-> "lMOMA", reference |-> reference, constraints |-> constraints, shared |-> TRUE],
           lMOMA(model, reference, constraints, solver, oracle))

\* FBA called without solver=: it builds an instance of its own
DrainFBA ==
    \E minimize \in BOOLEAN, constraints \in DrainConstraints :
        Do([op |-> "FBA", objective |-> EmptyDict, minimize |-> minimize,
            constraints |-> constraints, shared |-> FALSE],
           FBA(model, EmptyDict, minimize, constraints, NoSolver, oracle))

NextLMOMA == DrainlMOMA \/ DrainFBA

SpecLMOMA == InitLMOMA /\ [][NextLMOMA]_vars

\* sum over the reference reactions of |flux - reference|
Deviation(reference, values) ==
    SumOver(DOMAIN reference, [r_id \in DOMAIN reference |-> Abs(values[r_id] - reference[r_id])])

\* C9: every lMOMA call that returns OPTIMAL, also one on an instance lMOMA
\* was run on before with another reference, has as objective value the sum
\* over the reference reactions of |flux - reference| for the reference of
\* that call, and that value is the least over the feasible fluxes.
C9_LinearDeviation ==
    (call.op = "lMOMA" /\ outcome.kind = "return" /\ outcome.solution.status = OPTIMAL) =>
        /\ outcome.solution.fobj[1] = Deviation(call.reference, outcome.solution.values)
        /\ \A x \in Feasible(Fresh(model), call.constraints) :
               outcome.solution.fobj[1] <= Deviation(call.reference, x)

(***************************************************************************)
(* Any sequence of calls on one solver instance, fresh at first and passed *)
(* as solver= to every call.  The numerical result of a solve is left      *)
(* open: every solve may end OPTIMAL or not.                               *)
(***************************************************************************)
\* r1 takes A up, r2 turns A into B and r3 turns B back into A (the internal
\* cycle), r4 drains B
NetModel(l2, l3) ==
    [reaction_ids |-> <<"r1", "r2", "r3", "r4">>,
     reactions |-> ("r1" :> Reaction("A" :> 1, 0, MaxBound))
                   @@ ("r2" :> Reaction(("A" :> -1) @@ ("B" :> 1), l2, MaxBound))
                   @@ ("r3" :> Reaction(("B" :> -1) @@ ("A" :> 1), l3, MaxBound))
                   @@ ("r4" :> Reaction("B" :> -1, 0, MaxBound)),
     metabolites |-> {"A", "B"},
     objective |-> ("r4" :> 1)]

NetModels == {NetModel(-MaxBound, l3) : l3 \in {-MaxBound, 0}}

\* reactions= of pFBA: default, a subset, and a list naming an unknown reaction
ReactionLists == {<<>>, <<"r2">>, <<"r2", "r9">>}

\* reference= of MOMA, lMOMA and ROOM: default, a full reference, and one
\* without r4
NetReferences ==
    {EmptyDict,
     ("r1" :> 1) @@ ("r2" :> 1) @@ ("r3" :> 0) @@ ("r4" :> 1),
     ("r1" :> 1) @@ ("r2" :> 1) @@ ("r3" :> 0)}

Init ==
    /\ model \in NetModels
    /\ solver = Fresh(model)
    /\ before = solver
    /\ call = NoCall
    /\ outcome = NoOutcome
    /\ oracle = "any"

CallFBA ==
    Do([op |-> "FBA", objective |-> EmptyDict, minimize |-> FALSE,
        constraints |-> EmptyDict, shared |-> TRUE],
       FBA(model, EmptyDict, FALSE, EmptyDict, solver, oracle))

CallpFBA ==
    \E reactions \in ReactionLists :
        Do([op |-> "pFBA", objective |-> EmptyDict, minimize |-> FALSE,
            constraints |-> EmptyDict, reactions |-> reactions, shared |-> TRUE],
           pFBA(model, EmptyDict, FALSE, EmptyDict, reactions, solver, oracle))

CalllooplessFBA ==
    Do([op |-> "looplessFBA", objective |-> EmptyDict, minimize |-> FALSE,
        constraints |-> EmptyDict, internal |-> <<>>, shared |-> TRUE],
       looplessFBA(model, EmptyDict, FALSE, EmptyDict, <<>>, solver, oracle))

CallMOMA ==
    \E reference \in NetReferences :
        Do([op |-> "MOMA", reference |-> reference, constraints |-> EmptyDict, shared |-> TRUE],
           MOMA(model, reference, EmptyDict, solver, oracle))

CalllMOMA ==
    \E reference \in NetReferences :
        Do([op |-> "lMOMA", reference |-> reference, constraints |-> EmptyDict, shared |-> TRUE],
           lMOMA(model, reference, EmptyDict, solver, oracle))

CallROOM ==
    \E reference \in NetReferences :
        Do([op |-> "ROOM", reference |-> reference, constraints |-> EmptyDict, shared |-> TRUE],
           ROOM(model, reference, EmptyDict, solver, Delta, Epsilon, oracle))

Next == CallFBA \/ CallpFBA \/ CalllooplessFBA \/ CallMOMA \/ CalllMOMA \/ CallROOM

Spec == Init /\ [][Next]_vars

(***************************************************************************)
(* What the calls leave behind and hand back.                              *)
(***************************************************************************)
Reformulations == {"pFBA", "looplessFBA", "lMOMA", "ROOM"}

\* the call ran a prerequisite solve and that solve was not optimal
PrerequisiteFailed ==
    /\ call.op \in {"pFBA", "MOMA", "lMOMA"}
    /\ outcome.prerequisite # None
    /\ outcome.prerequisite[1].status # OPTIMAL

\* the call is a pFBA whose pre-solve was optimal, so that it went on to
\* line 82
SecondPhase ==
    /\ call.op = "pFBA"
    /\ outcome.prerequisite # None
    /\ outcome.prerequisite[1].status = OPTIMAL

\* the ids the call names that the model (a reference: the caller's) lacks
UnknownIds ==
    IF call.op = "pFBA" THEN Range(call.reactions) \ DOMAIN model.reactions
    ELSE IF call.op = "ROOM" /\ call.reference # EmptyDict
         THEN DOMAIN model.reactions \ DOMAIN call.reference
    ELSE {}

\* C1: the flux mapping of every OPTIMAL Solution a reformulation returns has
\* only reaction ids of the model as keys.
C1_OnlyReactionIds ==
    (call.op \in Reformulations /\ outcome.kind = "return" /\ outcome.solution.status = OPTIMAL) =>
        DOMAIN outcome.solution.values \subseteq DOMAIN model.reactions

\* C2: a call whose prerequisite solve is not optimal returns that
\* prerequisite's Solution unchanged, raises nothing and leaves the solver
\* as it was.
C2_PrerequisiteReturned ==
    PrerequisiteFailed =>
        /\ outcome.kind = "return"
        /\ outcome.solution = outcome.prerequisite[1]
        /\ solver = before

\* C3: after a pFBA call that got past an optimal pre-solve and returned,
\* with an optimal or a non-optimal second-phase result, the solver holds no
\* constraint named 'obj'.
C3_ObjRemoved ==
    (SecondPhase /\ outcome.kind = "return") => "obj" \notin DOMAIN solver.constrs

\* pFBA has returned a non-optimal second-phase result and 'obj' is gone
C3_Witness ==
    /\ SecondPhase
    /\ outcome.kind = "return"
    /\ outcome.solved
    /\ outcome.solution.status # OPTIMAL
    /\ "obj" \notin DOMAIN solver.constrs

\* C4 as stated: every call of a reformulation leaves its augmentation
\* installed, no flag is ever taken back, and no auxiliary name is registered
\* twice.
C4_InstalledOnFirstCall ==
    /\ call.op = "pFBA" => "pFBA_flag" \in solver.flags
    /\ call.op = "looplessFBA" => "ll_FBA_flag" \in solver.flags
    /\ call.op = "lMOMA" => "lMOMA_flag" \in solver.flags
    /\ call.op = "ROOM" => "ROOM_flag" \in solver.flags
    /\ before.flags \subseteq solver.flags
    /\ \A n \in DOMAIN solver.nadd : solver.nadd[n] <= 1

\* C4: a flag is set by the first call that reaches its guard (every call of
\* looplessFBA, lMOMA and ROOM; a pFBA call whose pre-solve was optimal),
\* another call sets none, no flag is ever taken back, and no auxiliary name
\* is registered twice.
C4_InstalledOnce ==
    /\ SecondPhase => "pFBA_flag" \in solver.flags
    /\ (call.op = "pFBA" /\ ~SecondPhase) => solver.flags = before.flags
    /\ call.op = "looplessFBA" => "ll_FBA_flag" \in solver.flags
    /\ call.op = "lMOMA" => "lMOMA_flag" \in solver.flags
    /\ call.op = "ROOM" => "ROOM_flag" \in solver.flags
    /\ call.op \in {"FBA", "MOMA"} => solver = before
    /\ before.flags \subseteq solver.flags
    /\ \A n \in DOMAIN solver.nadd : solver.nadd[n] <= 1

\* pFBA has run its second phase on a solver that had the split installed,
\* and has registered nothing
C4_Witness ==
    /\ SecondPhase
    /\ outcome.solved
    /\ "pFBA_flag" \in before.flags
    /\ \E n \in DOMAIN before.nadd : before.nadd[n] = 1
    /\ solver.nadd = before.nadd

\* C7: the objective of the solve of every ROOM call is the sum of y_r over
\* all reactions of the model, each with coefficient 1.
C7_SumOfIndicators ==
    (call.op = "ROOM" /\ outcome.solved) =>
        outcome.objective = [n \in {"y_" \o r_id : r_id \in DOMAIN model.reactions} |-> 1]

\* C8: at the second-phase solve of a pFBA call on known reactions, every
\* reversible reaction of the model is split, and every name of the
\* objective is a variable of the solver.
C8_AllReversibleSplit ==
    (SecondPhase /\ UnknownIds = {}) =>
        /\ \A r_id \in DOMAIN model.reactions :
               reversible(model, r_id) =>
                   {r_id \o "+", r_id \o "-"} \subseteq DOMAIN solver.vars
        /\ outcome.solved
        /\ DOMAIN outcome.objective \subseteq DOMAIN solver.vars

\* C10: a pFBA or ROOM call that names an unknown reaction id fails with a
\* lookup error and leaves the solver as it was before the call.
C10_FailedCallLeavesSolver ==
    (call.op \in {"pFBA", "ROOM"} /\ UnknownIds # {} /\ outcome.kind = "raise") =>
        /\ outcome.exc \in {"KeyError", "LookupError"}
        /\ solver = before

====
